---- MODULE Spec2Model ----
(***************************************************************************)
(* Model of overiva_sim_plot.py: the directory scan, the pickle            *)
(* load-or-rebuild branch, the record aggregation loop, the DataFrame      *)
(* build, the substitutions that open the plotting phase, and proc_ratio.  *)
(*                                                                         *)
(* Python floats are IEEE-754 binary64.  A float is modelled exactly: a    *)
(* finite non-zero value is sign, exponent and a 53-bit significand kept   *)
(* as a sequence of bits (most significant first), and every operation     *)
(* rounds its exact result to nearest, ties to even.                       *)
(***************************************************************************)
EXTENDS Integers, Sequences, FiniteSets, TLC

\* ------------------------------------------------------------------------
\* Bit-sequence arithmetic (unbounded naturals, most significant bit first)
\* ------------------------------------------------------------------------

\* significand width of a Python float (binary64)
Precision == 53

\* a function on 1..n as a tuple (evaluated at once)
Tuple(f) == f \o << >>

Zeros(n) == Tuple([j \in 1..n |-> 0])

\* b without its leading zeros
Strip(b) ==
    LET ones == {j \in 1..Len(b) : b[j] = 1}
    IN  IF ones = {} THEN <<>>
        ELSE SubSeq(b, CHOOSE j \in ones : \A q \in ones : j <= q, Len(b))

PadTo(b, n) == Zeros(n - Len(b)) \o b

RECURSIVE BitsOf(_)
BitsOf(n) == IF n = 0 THEN <<>> ELSE Append(BitsOf(n \div 2), n % 2)

\* a >= b for bit sequences of the same length
Geq(a, b) ==
    LET diff == {j \in 1..Len(a) : a[j] # b[j]}
    IN  diff = {} \/ LET f == CHOOSE j \in diff : \A q \in diff : j <= q
                     IN  a[f] > b[f]

\* carry into position j of a + b + c0 (positions to the right of j that
\* hold exactly one 1 pass a carry on; the nearest other one decides)
CarryIn(a, b, c0, j) ==
    LET right == (j + 1)..Len(a) IN
    IF \A q \in right : a[q] + b[q] = 1 THEN c0
    ELSE LET f == CHOOSE q \in right :
                     /\ a[q] + b[q] # 1
                     /\ \A h \in (j + 1)..(q - 1) : a[h] + b[h] = 1
         IN  (a[f] + b[f]) \div 2

\* a + b + c0 for bit sequences of the same length
AddBits(a, b, c0) ==
    LET body == Tuple([j \in 1..Len(a) |->
                        (a[j] + b[j] + CarryIn(a, b, c0, j)) % 2])
    IN  IF CarryIn(a, b, c0, 0) = 1 THEN <<1>> \o body ELSE body

\* borrow into position j of a - b
BorrowIn(a, b, j) ==
    LET right == (j + 1)..Len(a) IN
    IF \A q \in right : a[q] = b[q] THEN 0
    ELSE LET f == CHOOSE q \in right :
                     /\ a[q] # b[q]
                     /\ \A h \in (j + 1)..(q - 1) : a[h] = b[h]
         IN  IF a[f] < b[f] THEN 1 ELSE 0

\* a - b for a >= b, same length
SubBits(a, b) ==
    Tuple([j \in 1..Len(a) |-> (a[j] - b[j] - BorrowIn(a, b, j) + 2) % 2])

\* a + b for bit sequences of any lengths
AddAny(a, b) ==
    LET n == IF Len(a) > Len(b) THEN Len(a) ELSE Len(b)
    IN  AddBits(PadTo(a, n), PadTo(b, n), 0)

\* a * n for a small natural n: n is split at bit h into hi * 2^h + lo and
\* the two partial products are added (the evaluation depth stays low)
RECURSIVE MulBits(_, _)
MulBits(a, n) ==
    IF n = 0 THEN <<>>
    ELSE IF n = 1 THEN a
    ELSE LET h  == Len(BitsOf(n)) \div 2
             hi == MulBits(a, n \div (2 ^ h))
             lo == MulBits(a, n % (2 ^ h))
         IN  AddAny(hi \o Zeros(h), lo)

\* long division by the small natural n over positions lo..hi: the quotient
\* bits of the range and the remainder that leaves it (the remainder enters
\* at lo; the range is split in halves to keep the evaluation depth low)
RECURSIVE DivRange(_, _, _, _, _)
DivRange(a, n, lo, hi, rem) ==
    IF lo = hi
    THEN LET t == 2 * rem + a[lo]
         IN  IF t >= n THEN [bits |-> <<1>>, c |-> t - n]
                       ELSE [bits |-> <<0>>, c |-> t]
    ELSE LET mid  == (lo + hi) \div 2
             high == DivRange(a, n, lo, mid, rem)
             low  == DivRange(a, n, mid + 1, hi, high.c)
         IN  [bits |-> high.bits \o low.bits, c |-> low.c]

\* ------------------------------------------------------------------------
\* binary64 values
\* ------------------------------------------------------------------------

NaN  == [k |-> "nan",  s |-> 0, e |-> 0, m |-> <<>>]
Zero == [k |-> "zero", s |-> 0, e |-> 0, m |-> <<>>]
Inf  == [k |-> "inf",  s |-> 0, e |-> 0, m |-> <<>>]

\* round the natural number `bits` * 2^e (bits stripped, non-empty; sticky
\* says a non-zero fraction lies below the last bit) to nearest, ties to even
Round(s, bits, sticky, e) ==
    LET L == Len(bits) IN
    IF L <= Precision
    THEN [k |-> "num", s |-> s, e |-> e - (Precision - L),
          m |-> bits \o Zeros(Precision - L)]
    ELSE LET keep  == SubSeq(bits, 1, Precision)
             guard == bits[Precision + 1]
             st    == sticky \/ \E j \in (Precision + 2)..L : bits[j] = 1
             up    == guard = 1 /\ (st \/ keep[Precision] = 1)
             inc   == AddBits(keep, Zeros(Precision), 1)
         IN  IF ~up
             THEN [k |-> "num", s |-> s, e |-> e + (L - Precision), m |-> keep]
             ELSE IF Len(inc) > Precision
             THEN [k |-> "num", s |-> s, e |-> e + (L - Precision) + 1,
                   m |-> SubSeq(inc, 1, Precision)]
             ELSE [k |-> "num", s |-> s, e |-> e + (L - Precision), m |-> inc]

\* float(n) for an integer n
fromInt(n) ==
    IF n = 0 THEN Zero
    ELSE IF n < 0 THEN Round(1, BitsOf(-n), FALSE, 0)
    ELSE Round(0, BitsOf(n), FALSE, 0)

isnan(x) == x.k = "nan"

fneg(x) == IF x.k \in {"num", "inf"} THEN [x EXCEPT !.s = 1 - x.s] ELSE x

\* x + y
fadd(x, y) ==
    IF isnan(x) \/ isnan(y) THEN NaN
    ELSE IF x.k = "inf" /\ y.k = "inf" THEN (IF x.s = y.s THEN x ELSE NaN)
    ELSE IF x.k = "inf" THEN x
    ELSE IF y.k = "inf" THEN y
    ELSE IF x.k = "zero" THEN y
    ELSE IF y.k = "zero" THEN x
    ELSE LET emin == IF x.e < y.e THEN x.e ELSE y.e
             ax0  == x.m \o Zeros(x.e - emin)
             ay0  == y.m \o Zeros(y.e - emin)
             n    == IF Len(ax0) > Len(ay0) THEN Len(ax0) ELSE Len(ay0)
             ax   == PadTo(ax0, n)
             ay   == PadTo(ay0, n)
         IN  IF x.s = y.s
             THEN Round(x.s, AddBits(ax, ay, 0), FALSE, emin)
             ELSE IF ax = ay THEN Zero
             ELSE IF Geq(ax, ay)
             THEN Round(x.s, Strip(SubBits(ax, ay)), FALSE, emin)
             ELSE Round(y.s, Strip(SubBits(ay, ax)), FALSE, emin)

\* x - y
fsub(x, y) == fadd(x, fneg(y))

\* x * c for an integer c >= 0 (float(c) is exact for the integers used)
fmulInt(x, c) ==
    IF isnan(x) THEN NaN
    ELSE IF x.k = "inf" THEN (IF c = 0 THEN NaN ELSE x)
    ELSE IF x.k = "zero" \/ c = 0 THEN Zero
    ELSE Round(x.s, MulBits(x.m, c), FALSE, x.e)

\* x / n for an integer n > 0
fdivInt(x, n) ==
    IF x.k # "num" THEN x
    ELSE LET extra == Len(BitsOf(n)) + 2
             d     == DivRange(x.m \o Zeros(extra), n, 1, Precision + extra, 0)
         IN  Round(x.s, Strip(d.bits), d.c # 0, x.e - extra)

\* the float a JSON number k/d parses to (the double nearest to k/d)
Dec(k, d) == fdivInt(fromInt(k), d)

\* x < y for non-negative floats that are not NaN
flt(x, y) ==
    IF x.k = "num" /\ y.k = "num" /\ x.s = 0 /\ y.s = 0
    THEN \/ x.e < y.e
         \/ x.e = y.e /\ x.m # y.m /\ Geq(y.m, x.m)
    ELSE IF x.k = "zero" THEN y.k \in {"num", "inf"} /\ y.s = 0
    ELSE IF x.k = "num" /\ x.s = 0 THEN y.k = "inf" /\ y.s = 0
    ELSE FALSE

\* ------------------------------------------------------------------------
\* Inputs: run records, data.json / parameters.json of each directory
\* ------------------------------------------------------------------------

\* most directories on one command line, most runs in one behaviour
MaxDirs == 2

F(n) == fromInt(n)

\* a well-formed record whose values are not exactly representable
RecGood ==
    [algorithm |-> "auxiva_laplace", n_targets |-> 2, n_mics |-> 4,
     rt60 |-> Dec(2, 10), sinr |-> 10, seed |-> 1,
     runtime |-> Dec(397, 100), n_samples |-> 16000,
     sdr |-> << <<Dec(1, 10), Dec(2, 10)>>, <<Zero, Dec(1, 10)>> >>,
     sir |-> << <<F(1), F(2)>>, <<F(5), F(7)>> >>]

\* a well-formed record of another algorithm, three iterations of sdr
RecOver ==
    [algorithm |-> "overiva_laplace", n_targets |-> 2, n_mics |-> 4,
     rt60 |-> Dec(2, 10), sinr |-> 10, seed |-> 2,
     runtime |-> F(2), n_samples |-> 16000,
     sdr |-> << <<F(1), F(2)>>, <<F(3), F(3)>>, <<F(5), F(8)>> >>,
     sir |-> << <<F(0), F(0)>>, <<F(2), F(4)>> >>]

\* runtime is not-a-number
RecNanRuntime ==
    [RecOver EXCEPT !.seed = 3, !.runtime = NaN]

\* the final sdr vector holds a not-a-number entry
RecNanSdr ==
    [RecOver EXCEPT !.seed = 4, !.algorithm = "ogive_laplace",
                    !.sdr = << <<F(1), F(2)>>, <<NaN, F(3)>> >>]

\* initial and final sdr vectors of different lengths (2 and 3)
RecShape ==
    [RecOver EXCEPT !.seed = 5,
                    !.sdr = << <<F(1), F(2)>>, <<F(1), F(2), F(3)>> >>]

\* sdr is an empty sequence
RecEmpty ==
    [RecOver EXCEPT !.seed = 6, !.sdr = << >>]

\* an initial sdr vector of length one, which numpy broadcasts
RecBroadcast ==
    [RecOver EXCEPT !.seed = 7, !.sdr = << <<F(1)>>, <<F(3), F(6)>> >>]

\* every record and every sampling rate of the inputs below
RecordList ==
    <<RecGood, RecOver, RecNanRuntime, RecNanSdr, RecShape, RecEmpty,
      RecBroadcast>>

RateList == <<16000, 44100>>

\* the directories that can be named on the command line: whether data.json
\* exists, its content (a list of segments, each a list of records) and
\* parameters.json
Directory ==
    [a |-> [has_data |-> TRUE,
            data |-> << <<RecGood>> >>,
            parameters |-> [fs |-> RateList[1], name |-> "a"]],
     b |-> [has_data |-> TRUE,
            data |-> << <<RecNanRuntime, RecBroadcast>>, <<RecShape, RecNanSdr>> >>,
            parameters |-> [fs |-> RateList[2], name |-> "b"]],
     c |-> [has_data |-> TRUE,
            data |-> << <<RecOver>> >>,
            parameters |-> [fs |-> RateList[1], name |-> "c"]],
     e |-> [has_data |-> TRUE,
            data |-> << <<RecOver, RecEmpty>>, <<RecGood>> >>,
            parameters |-> [fs |-> RateList[1], name |-> "e"]],
     m |-> [has_data |-> FALSE,
            data |-> << >>,
            parameters |-> [fs |-> RateList[1], name |-> "m"]]]

DirNames == DOMAIN Directory

\* cli_args.dirs: nargs="+", one directory or more
DirLists == UNION {[1..n -> DirNames] : n \in 1..MaxDirs}

\* ------------------------------------------------------------------------
\* The aggregation of one record (the body of `for record in records`)
\* ------------------------------------------------------------------------

columns ==
    <<"Algorithm", "Sources", "Mics", "RT60", "SINR", "seed", "Runtime [s]",
      "SDR [dB]", "SIR [dB]", "SDR Improvement [dB]", "SIR Improvement [dB]">>

copy_fields == <<"algorithm", "n_targets", "n_mics", "rt60", "sinr", "seed">>

Last(q) == q[Len(q)]

\* np.any(np.isnan(v))
any_isnan(v) == \E j \in 1..Len(v) : isnan(v[j])

RECURSIVE np_sum(_)
np_sum(v) == IF Len(v) = 1 THEN v[1]
             ELSE fadd(np_sum(SubSeq(v, 1, Len(v) - 1)), Last(v))

\* np.mean of a non-empty vector: the sum, left to right, over the count
np_mean(v) == fdivInt(np_sum(v), Len(v))

\* whether numpy can subtract two vectors (equal lengths, or one of length 1)
broadcastable(f, g) == Len(f) = Len(g) \/ Len(f) = 1 \/ Len(g) = 1

\* f - g elementwise, a vector of length one being broadcast
np_sub(f, g) ==
    LET n == IF Len(f) > Len(g) THEN Len(f) ELSE Len(g)
    IN  [j \in 1..n |-> fsub(IF Len(f) = 1 THEN f[1] ELSE f[j],
                             IF Len(g) = 1 THEN g[1] ELSE g[j])]

\* the first seven cells of a row: the copied fields and the real-time factor
entry(record, fs) ==
    <<record.algorithm, record.n_targets, record.n_mics, record.rt60,
      record.sinr, record.seed,
      fmulInt(fdivInt(record.runtime, record.n_samples), fs)>>

\* the warnings the three NaN tests emit, in order
nan_warnings(record) ==
    (IF isnan(record.runtime)
        THEN << <<"NaN runtime", record.algorithm>> >> ELSE << >>)
    \o (IF record.sdr # << >> /\ any_isnan(Last(record.sdr))
        THEN << <<"NaN SDR", record.algorithm>> >> ELSE << >>)
    \o (IF record.sdr # << >> /\ record.sir # << >> /\ any_isnan(Last(record.sir))
        THEN << <<"NaN SIR", record.algorithm>> >> ELSE << >>)

\* record["sdr"][-1] or record["sir"][-1] of the NaN tests raises IndexError;
\* these tests stand before the try block
nan_test_raises(record) == record.sdr = << >> \/ record.sir = << >>

\* a try block that also leaves out every record with a NaN
try_raises_on_nan(record) ==
    \/ record.sdr = << >>
    \/ record.sir = << >>
    \/ ~broadcastable(Last(record.sdr), record.sdr[1])
    \/ ~broadcastable(Last(record.sir), record.sir[1])
    \/ nan_warnings(record) # << >>

\* whether the try block raises (indexing an empty sequence, or a
\* subtraction numpy cannot broadcast)
try_raises(record) ==
    \/ record.sdr = << >>
    \/ record.sir = << >>
    \/ ~broadcastable(Last(record.sdr), record.sdr[1])
    \/ ~broadcastable(Last(record.sir), record.sir[1])

\* a row whose improvements are taken from the second iteration, not the last
row_of_second_iteration(record, fs) ==
    entry(record, fs)
    \o <<np_mean(Last(record.sdr)),
         np_mean(Last(record.sir)),
         np_mean(np_sub(record.sdr[2], record.sdr[1])),
         np_mean(np_sub(record.sir[2], record.sir[1]))>>

\* the row appended inside the try block
row_of(record, fs) ==
    entry(record, fs)
    \o <<np_mean(Last(record.sdr)),
         np_mean(Last(record.sir)),
         np_mean(np_sub(Last(record.sdr), record.sdr[1])),
         np_mean(np_sub(Last(record.sir), record.sir[1]))>>

\* ------------------------------------------------------------------------
\* Data frames, the pickle file, the substitutions
\* ------------------------------------------------------------------------

NoFrame == [defined |-> FALSE, columns |-> << >>, rows |-> << >>]

\* pd.DataFrame(table, columns=columns)
DataFrame(data, cols) == [defined |-> TRUE, columns |-> cols, rows |-> data]

RECURSIVE Flatten(_)
Flatten(qq) == IF qq = << >> THEN << >> ELSE qq[1] \o Flatten(Tail(qq))

\* df.melt(id_vars=df.columns[:len(copy_fields)], var_name="metric"): one
\* row per value column and row of df, value columns outermost
melt(frame) ==
    LET nid  == Len(copy_fields)
        nval == Len(frame.columns) - nid
        nrow == Len(frame.rows)
    IN  [defined |-> TRUE,
         columns |-> SubSeq(frame.columns, 1, nid) \o <<"metric", "value">>,
         rows    |-> [h \in 1..(nval * nrow) |->
                        LET c == nid + 1 + ((h - 1) \div nrow)
                            k == frame.rows[1 + ((h - 1) % nrow)]
                        IN  SubSeq(k, 1, nid) \o <<frame.columns[c], k[c]>>]]

NoFile == [exists |-> FALSE, bytes |-> << >>]

\* df.to_pickle(pickle_file): the frame serialised as the column count, the
\* column labels and the cells row by row
to_pickle(frame) ==
    [exists |-> TRUE,
     bytes  |-> <<Len(frame.columns)>> \o frame.columns \o Flatten(frame.rows)]

\* a reader that returns the rows last to first
read_pickle_reversed(file) ==
    LET n     == file.bytes[1]
        cells == SubSeq(file.bytes, n + 2, Len(file.bytes))
        nrow  == Len(cells) \div n
    IN  [defined |-> TRUE,
         columns |-> SubSeq(file.bytes, 2, n + 1),
         rows    |-> [k \in 1..nrow |->
                        SubSeq(cells, (nrow - k) * n + 1, (nrow - k + 1) * n)]]

\* pd.read_pickle(pickle_file)
read_pickle(file) ==
    LET n     == file.bytes[1]
        cells == SubSeq(file.bytes, n + 2, Len(file.bytes))
    IN  [defined |-> TRUE,
         columns |-> SubSeq(file.bytes, 2, n + 1),
         rows    |-> [k \in 1..(Len(cells) \div n) |->
                        SubSeq(cells, (k - 1) * n + 1, k * n)]]

\* substitutions["Algorithm"]
substitutions(algo) ==
    CASE algo = "auxiva_laplace"  -> "AuxIVA (Laplace)"
      [] algo = "overiva_laplace" -> "OverIVA (Laplace)"
      [] algo = "ogive_laplace"   -> "OGIVEw (Laplace)"
      [] OTHER -> algo

\* frame.replace(substitutions): the cells of column "Algorithm" replaced
replace(frame) ==
    [frame EXCEPT !.rows =
        [k \in 1..Len(frame.rows) |->
            [c \in 1..Len(frame.columns) |->
                IF frame.columns[c] = "Algorithm"
                THEN substitutions(frame.rows[k][c])
                ELSE frame.rows[k][c]]]]

\* ------------------------------------------------------------------------
\* proc_ratio and the division that feeds it
\* ------------------------------------------------------------------------

\* source counts (columns) and microphone counts (index) of the pivot table
SourceLevels == {1, 2}
MicLevels == {2, 4}
Coords == SourceLevels \X MicLevels

\* a median runtime of the pivot table: missing (NaN), infinite, or a number
MedianValues == {NaN, Inf, F(2), F(8)}

\* x / y of two pivot-table cells; the finite medians are whole numbers
IntOf(x) == CHOOSE n \in 1..8 : F(n) = x

pd_div(x, y) ==
    IF isnan(x) \/ isnan(y) THEN NaN
    ELSE IF x.k = "inf" THEN (IF y.k = "inf" THEN NaN ELSE Inf)
    ELSE IF y.k = "inf" THEN Zero
    ELSE fdivInt(x, IntOf(y))

\* pts of proc_ratio in loop order: sources ascending, then mics ascending
ratio_pts(r) ==
    LET order == [h \in 1..Cardinality(Coords) |->
                    CHOOSE c \in Coords :
                        Cardinality({d \in Coords :
                            d[1] < c[1] \/ (d[1] = c[1] /\ d[2] < c[2])}) = h - 1]
        kept  == SelectSeq(order, LAMBDA c : ~isnan(r[c]))
    IN  [h \in 1..Len(kept) |->
            <<fdivInt(F(kept[h][1]), kept[h][2]), r[kept[h]]>>]

\* arr[np.argsort(arr[:, 0]), :] (numpy sorts so few points by insertion)
argsort_rows(pts) ==
    LET before(g, h) == flt(pts[g][1], pts[h][1])
                        \/ (pts[g][1] = pts[h][1] /\ g < h)
        pos(h) == 1 + Cardinality({g \in 1..Len(pts) : before(g, h)})
    IN  [q \in 1..Len(pts) |-> pts[CHOOSE h \in 1..Len(pts) : pos(h) = q]]

\* proc_ratio(r): with no point, np.array([]) has one dimension and
\* arr[:, 0] raises IndexError
proc_ratio(r) ==
    LET pts == ratio_pts(r)
    IN  IF pts = << >> THEN [raised |-> "IndexError", value |-> << >>]
        ELSE [raised |-> "none", value |-> argsort_rows(pts)]

\* ------------------------------------------------------------------------
\* State
\* ------------------------------------------------------------------------

VARIABLES
    pickle_file,   \* the file .mbss.pickle
    dirs,          \* cli_args.dirs
    pickle_flag,   \* cli_args.pickle
    pc,            \* where the run stands
    i,             \* index of the directory scan
    data_files,    \* the data.json paths collected by the scan
    parameters,    \* the parameters.json read last
    records,       \* the flat list of run records
    ridx,          \* index of the aggregation loop
    table,         \* the rows appended so far
    warned,        \* warnings.warn calls of this run
    df, df_melt,   \* the wide and the melted table
    error,         \* the exception that ended the run
    figures,       \* whether the figures were written
    io,            \* this run's file accesses
    written,       \* the frame last handed to to_pickle
    A, B,          \* median tables of the baseline and the compared group
    quotient,      \* their quotient, the argument of proc_ratio
    ratio,         \* what proc_ratio returned
    rpc            \* where the ratio computation stands

vars == <<pickle_file, dirs, pickle_flag, pc, i, data_files, parameters,
          records, ridx, table, warned, df, df_melt, error, figures, io,
          written, A, B, quotient, ratio, rpc>>

ratio_vars == <<A, B, quotient, ratio, rpc>>
file_vars == <<pickle_file, written>>

NoIo == [data_reads |-> 0, pickle_reads |-> 0, pickle_writes |-> 0]
NoParameters == [fs |-> 0, name |-> ""]
NoMedians == [c \in Coords |-> NaN]
NoRatio == [raised |-> "none", value |-> << >>]

\* the memory of the process before the statements of the script run
Fresh ==
    /\ dirs = << >>
    /\ pickle_flag = FALSE
    /\ pc = "start"
    /\ i = 1
    /\ data_files = << >>
    /\ parameters = NoParameters
    /\ records = << >>
    /\ ridx = 0
    /\ table = << >>
    /\ warned = << >>
    /\ df = NoFrame
    /\ df_melt = NoFrame
    /\ error = "none"
    /\ figures = FALSE
    /\ io = NoIo

RatioIdle ==
    /\ A = NoMedians /\ B = NoMedians /\ quotient = NoMedians
    /\ ratio = NoRatio /\ rpc = "idle"

Init ==
    /\ Fresh
    /\ pickle_file = NoFile
    /\ written = NoFrame
    /\ RatioIdle

\* ------------------------------------------------------------------------
\* The run
\* ------------------------------------------------------------------------

\* cli_args = parser.parse_args(): any directories, with or without --pickle
ParseArgs ==
    /\ pc = "start"
    /\ \E d \in DirLists, flag \in BOOLEAN :
        /\ dirs' = d
        /\ pickle_flag' = flag
    /\ pc' = "scan"
    /\ UNCHANGED <<pickle_file, i, data_files, parameters, records, ridx,
                   table, warned, df, df_melt, error, figures, io, written>>
    /\ UNCHANGED ratio_vars

\* a scan that passes over a directory without data.json
ScanDirSkipsMissing ==
    /\ pc = "scan"
    /\ i <= Len(dirs)
    /\ IF Directory[dirs[i]].has_data
       THEN /\ data_files' = Append(data_files, dirs[i])
            /\ parameters' = Directory[dirs[i]].parameters
       ELSE UNCHANGED <<data_files, parameters>>
    /\ i' = i + 1
    /\ UNCHANGED <<pc, error>>
    /\ UNCHANGED <<pickle_file, dirs, pickle_flag, records, ridx, table,
                   warned, df, df_melt, figures, io, written>>
    /\ UNCHANGED <<A, B, quotient, ratio, rpc>>

\* a scan that keeps the parameters of the first directory
ScanDirFirstParameters ==
    /\ pc = "scan"
    /\ i <= Len(dirs)
    /\ IF Directory[dirs[i]].has_data
       THEN /\ data_files' = Append(data_files, dirs[i])
            /\ parameters' = IF i = 1 THEN Directory[dirs[i]].parameters
                                      ELSE parameters
            /\ i' = i + 1
            /\ UNCHANGED <<pc, error>>
       ELSE /\ pc' = "error"
            /\ error' = "ValueError"
            /\ UNCHANGED <<data_files, parameters, i>>
    /\ UNCHANGED <<pickle_file, dirs, pickle_flag, records, ridx, table,
                   warned, df, df_melt, figures, io, written>>
    /\ UNCHANGED <<A, B, quotient, ratio, rpc>>

\* one pass of `for i, data_dir in enumerate(cli_args.dirs)`
ScanDir ==
    /\ pc = "scan"
    /\ i <= Len(dirs)
    /\ IF Directory[dirs[i]].has_data
       THEN /\ data_files' = Append(data_files, dirs[i])
            /\ parameters' = Directory[dirs[i]].parameters
            /\ i' = i + 1
            /\ UNCHANGED <<pc, error>>
       ELSE /\ pc' = "error"
            /\ error' = "ValueError"
            /\ UNCHANGED <<data_files, parameters, i>>
    /\ UNCHANGED <<pickle_file, dirs, pickle_flag, records, ridx, table,
                   warned, df, df_melt, figures, io, written>>
    /\ UNCHANGED ratio_vars

\* the pickle file exists and the flag is set: df = pd.read_pickle(...)
ReadPickle ==
    /\ pc = "scan"
    /\ i > Len(dirs)
    /\ pickle_file.exists /\ pickle_flag
    /\ df' = read_pickle(pickle_file)
    /\ io' = [io EXCEPT !.pickle_reads = @ + 1]
    /\ pc' = "plot"
    /\ UNCHANGED <<pickle_file, dirs, pickle_flag, i, data_files, parameters,
                   records, ridx, table, warned, df_melt, error, figures,
                   written>>
    /\ UNCHANGED ratio_vars

\* a reader that takes only the first segment of each data file
read_first_segments(files) ==
    Flatten([f \in 1..Len(files) |-> Directory[files[f]].data[1]])

\* the records of every segment of every data file, in order
read_records(files) ==
    Flatten([f \in 1..Len(files) |-> Flatten(Directory[files[f]].data)])

\* otherwise: every data file is read and its segments are concatenated
ReadRecords ==
    /\ pc = "scan"
    /\ i > Len(dirs)
    /\ ~(pickle_file.exists /\ pickle_flag)
    /\ records' = read_records(data_files)
    /\ io' = [io EXCEPT !.data_reads = @ + Len(data_files)]
    /\ table' = << >>
    /\ ridx' = 1
    /\ pc' = "aggregate"
    /\ UNCHANGED <<pickle_file, dirs, pickle_flag, i, data_files, parameters,
                   warned, df, df_melt, error, figures, written>>
    /\ UNCHANGED ratio_vars

\* one pass of `for record in records`: the NaN tests warn, or raise
\* IndexError outside the try block; the try block appends the row, or
\* raises and the pass goes on to the next record
AggregateRecord ==
    /\ pc = "aggregate"
    /\ ridx <= Len(records)
    /\ warned' = warned \o nan_warnings(records[ridx])
    /\ IF nan_test_raises(records[ridx])
       THEN /\ pc' = "error"
            /\ error' = "IndexError"
            /\ UNCHANGED <<table, ridx>>
       ELSE /\ table' = IF try_raises(records[ridx])
                        THEN table
                        ELSE Append(table, row_of(records[ridx], parameters.fs))
            /\ ridx' = ridx + 1
            /\ UNCHANGED <<pc, error>>
    /\ UNCHANGED <<pickle_file, dirs, pickle_flag, i, data_files, parameters,
                   records, df, df_melt, figures, io, written>>
    /\ UNCHANGED ratio_vars

\* after the loop: the frame, its melted form, and the pickle file
MakeFrame ==
    /\ pc = "aggregate"
    /\ ridx > Len(records)
    /\ df' = DataFrame(table, columns)
    /\ df_melt' = melt(df')
    /\ pickle_file' = to_pickle(df')
    /\ written' = df'
    /\ io' = [io EXCEPT !.pickle_writes = @ + 1]
    /\ pc' = "plot"
    /\ UNCHANGED <<dirs, pickle_flag, i, data_files, parameters, records,
                   ridx, table, warned, error, figures>>
    /\ UNCHANGED ratio_vars

\* df = df.replace(substitutions); df_melt = df_melt.replace(substitutions):
\* the second statement raises NameError when df_melt was never assigned
Substitute ==
    /\ pc = "plot"
    /\ df' = replace(df)
    /\ IF df_melt.defined
       THEN /\ df_melt' = replace(df_melt)
            /\ pc' = "figures"
            /\ UNCHANGED error
       ELSE /\ pc' = "error"
            /\ error' = "NameError"
            /\ UNCHANGED df_melt
    /\ UNCHANGED <<pickle_file, dirs, pickle_flag, i, data_files, parameters,
                   records, ridx, table, warned, figures, io, written>>
    /\ UNCHANGED ratio_vars

\* the figures are drawn from df and df_melt and saved
Plot ==
    /\ pc = "figures"
    /\ figures' = TRUE
    /\ pc' = "done"
    /\ UNCHANGED <<pickle_file, dirs, pickle_flag, i, data_files, parameters,
                   records, ridx, table, warned, df, df_melt, error, io,
                   written>>
    /\ UNCHANGED ratio_vars

\* the process ends, normally or by the exception: its memory is gone, the
\* pickle file stays
Exit ==
    /\ pc \in {"done", "error"}
    /\ dirs' = << >>
    /\ pickle_flag' = FALSE
    /\ pc' = "start"
    /\ i' = 1
    /\ data_files' = << >>
    /\ parameters' = NoParameters
    /\ records' = << >>
    /\ ridx' = 0
    /\ table' = << >>
    /\ warned' = << >>
    /\ df' = NoFrame
    /\ df_melt' = NoFrame
    /\ error' = "none"
    /\ figures' = FALSE
    /\ io' = NoIo
    /\ UNCHANGED file_vars
    /\ UNCHANGED ratio_vars

Next ==
    \/ ParseArgs
    \/ ScanDir
    \/ ReadPickle
    \/ ReadRecords
    \/ AggregateRecord
    \/ MakeFrame
    \/ Substitute
    \/ Plot
    \/ Exit

Spec == Init /\ [][Next]_vars

\* ------------------------------------------------------------------------
\* proc_ratio on its own: any two median tables
\* ------------------------------------------------------------------------

RunIdle ==
    /\ dirs = << >> /\ pickle_flag = FALSE /\ pc = "idle" /\ i = 1
    /\ data_files = << >> /\ parameters = NoParameters /\ records = << >>
    /\ ridx = 0 /\ table = << >> /\ warned = << >> /\ df = NoFrame
    /\ df_melt = NoFrame /\ error = "none" /\ figures = FALSE /\ io = NoIo
    /\ pickle_file = NoFile /\ written = NoFrame

RatioInit ==
    /\ RunIdle
    /\ A \in [Coords -> MedianValues]
    /\ B \in [Coords -> MedianValues]
    /\ quotient = NoMedians
    /\ ratio = NoRatio
    /\ rpc = "medians"

run_vars == <<pickle_file, dirs, pickle_flag, pc, i, data_files, parameters,
              records, ridx, table, warned, df, df_melt, error, figures, io,
              written>>

\* pvtb[B] / pvtb[A]
Divide ==
    /\ rpc = "medians"
    /\ quotient' = [c \in Coords |-> pd_div(B[c], A[c])]
    /\ rpc' = "divided"
    /\ UNCHANGED <<A, B, ratio>>
    /\ UNCHANGED run_vars

\* proc_ratio(...)
ProcRatio ==
    /\ rpc = "divided"
    /\ ratio' = proc_ratio(quotient)
    /\ rpc' = IF ratio'.raised = "none" THEN "done" ELSE "error"
    /\ UNCHANGED <<A, B, quotient>>
    /\ UNCHANGED run_vars

RatioNext == Divide \/ ProcRatio

RatioSpec == RatioInit /\ [][RatioNext]_vars

\* ------------------------------------------------------------------------
\* Properties of the run
\* ------------------------------------------------------------------------

\* this run loaded the table from the pickle file
Loaded == io.pickle_reads > 0

\* this run read the data files and entered the aggregation loop
Rebuilding == ridx > 0

\* the rows of the records whose improvement computation does not raise
RowsOf(recs, fs) ==
    LET kept == SelectSeq(recs, LAMBDA rec : ~try_raises(rec))
    IN  [k \in 1..Len(kept) |-> row_of(kept[k], fs)]

WithoutEmptySdr(recs) == SelectSeq(recs, LAMBDA rec : rec.sdr # << >>)

\* C1 (as stated): a record whose sdr is empty is left out of the table and
\* aggregation completes: no run ends in the IndexError of the loop, and once
\* the loop is over the table holds the rows of the other records, unchanged.
C1_EmptySdrDropped ==
    /\ error # "IndexError"
    /\ (pc = "aggregate" /\ ridx > Len(records))
          => table = RowsOf(WithoutEmptySdr(records), parameters.fs)

\* C10 (as stated): a run that is past the load-or-rebuild step has both df
\* and df_melt assigned, whichever branch it took, and never uses a table
\* its branch did not assign.
C10_BothTablesDefined ==
    /\ pc \in {"plot", "figures", "done"} => df.defined /\ df_melt.defined
    /\ error # "NameError"

\* position of the first directory without data.json
FirstMissing(d) ==
    CHOOSE k \in 1..Len(d) :
        /\ ~Directory[d[k]].has_data
        /\ \A j \in 1..(k - 1) : Directory[d[j]].has_data

\* C4: if any directory of the command line has no data.json, the run never
\* gets past the directory scan: the scan stops at the first such directory
\* with ValueError, no data.json is read, no table is built, the pickle file
\* is neither read nor written and no figure is produced, whatever the flag,
\* the pickle file and the position of the directory.
C4_MissingDataAborts ==
    (\E k \in 1..Len(dirs) : ~Directory[dirs[k]].has_data) =>
        /\ pc \in {"scan", "error"}
        /\ i <= FirstMissing(dirs)
        /\ pc = "error" => (error = "ValueError" /\ i = FirstMissing(dirs))
        /\ io = NoIo
        /\ records = << >> /\ table = << >>
        /\ ~df.defined /\ ~df_melt.defined
        /\ ~figures

\* the scan aborted at the second directory, with the flag set and the
\* pickle file present
C4_Witness ==
    /\ pc = "error" /\ error = "ValueError"
    /\ Len(dirs) = 2 /\ i = 2
    /\ pickle_flag /\ pickle_file.exists

\* C2: a run that loads the pickle file reads no data.json and aggregates
\* nothing, and the table it enters plotting with is the frame the writing
\* run handed to to_pickle: same columns in the same order, same rows, same
\* values.
C2_CacheLoadIdentical ==
    Loaded =>
        /\ io.data_reads = 0
        /\ records = << >> /\ table = << >> /\ ridx = 0 /\ warned = << >>
        /\ written.defined
        /\ pc = "plot" => df = written

\* a table of at least two rows, one of them with a NaN, was loaded
C2_Witness ==
    /\ pc = "plot" /\ Loaded
    /\ Len(df.rows) >= 2
    /\ \E k \in 1..Len(df.rows) : isnan(df.rows[k][7])

\* whether the SDR/SIR improvement computation of a record raises
ImprovementRaises(rec) ==
    \/ rec.sdr = << >>
    \/ rec.sir = << >>
    \/ ~(Len(Last(rec.sdr)) = Len(rec.sdr[1])
            \/ Len(Last(rec.sdr)) = 1 \/ Len(rec.sdr[1]) = 1)
    \/ ~(Len(Last(rec.sir)) = Len(rec.sir[1])
            \/ Len(Last(rec.sir)) = 1 \/ Len(rec.sir[1]) = 1)

NanRuntime(rec) == isnan(rec.runtime)
NanFinalSdr(rec) == rec.sdr # << >> /\ \E j \in 1..Len(Last(rec.sdr)) : isnan(Last(rec.sdr)[j])
NanFinalSir(rec) == rec.sir # << >> /\ \E j \in 1..Len(Last(rec.sir)) : isnan(Last(rec.sir)[j])

\* C5: a pass of the loop leaves the table as it was only if the improvement
\* computation of its record raises; a record with a NaN runtime or a NaN in
\* its final SDR or SIR vector, whose improvement computation does not raise,
\* gets a warning and exactly one new row, the NaN carried into the row
\* (Runtime [s], SDR [dB], SIR [dB]), and the loop goes on.
C5_NanRecordKept ==
    [][(pc = "aggregate" /\ ridx <= Len(records)) =>
        LET rec == records[ridx]
        IN  /\ table' = table => ImprovementRaises(rec)
            /\ ((NanRuntime(rec) \/ NanFinalSdr(rec) \/ NanFinalSir(rec))
                   /\ ~ImprovementRaises(rec)) =>
                  /\ pc' = "aggregate" /\ ridx' = ridx + 1 /\ error' = "none"
                  /\ Len(warned') > Len(warned)
                  /\ Len(table') = Len(table) + 1
                  /\ SubSeq(table', 1, Len(table)) = table
                  /\ Last(table')[6] = rec.seed
                  /\ NanRuntime(rec) => isnan(Last(table')[7])
                  /\ NanFinalSdr(rec) => isnan(Last(table')[8])
                  /\ NanFinalSir(rec) => isnan(Last(table')[9])]_vars

\* a table was built that holds a row with a NaN runtime and a row with a NaN
\* SDR, after warnings, while another record of the input was excluded
C5_Witness ==
    /\ pc = "plot" /\ Rebuilding
    /\ \E j, k \in 1..Len(table) : isnan(table[j][7]) /\ isnan(table[k][8])
    /\ Len(warned) >= 2
    /\ Len(table) < Len(records)

\* the records of the data files of the directories d, directory by
\* directory and segment by segment
RECURSIVE SegmentsJoined(_)
SegmentsJoined(segs) ==
    IF segs = << >> THEN << >>
    ELSE SegmentsJoined(SubSeq(segs, 1, Len(segs) - 1)) \o Last(segs)

RECURSIVE Concatenation(_)
Concatenation(d) ==
    IF d = << >> THEN << >>
    ELSE Concatenation(SubSeq(d, 1, Len(d) - 1))
            \o SegmentsJoined(Directory[Last(d)].data)

\* the records the loop has passed so far whose improvement computation
\* does not raise
WellFormedPassed ==
    SelectSeq(SubSeq(records, 1, ridx - 1), LAMBDA rec : ~ImprovementRaises(rec))

\* C7: on the rebuild path the records are the concatenation of every segment
\* of every directory's data.json, in directory order then segment order, and
\* the table holds exactly one row per well-formed record passed, in order,
\* with Algorithm, Sources, Mics, RT60, SINR and seed copied from it; the
\* frame built from the table has these rows under the eleven columns.
C7_OneRowPerRecord ==
    Rebuilding =>
        /\ records = Concatenation(dirs)
        /\ Len(table) = Len(WellFormedPassed)
        /\ \A k \in 1..Len(table) :
              SubSeq(table[k], 1, 6) =
                  <<WellFormedPassed[k].algorithm, WellFormedPassed[k].n_targets,
                    WellFormedPassed[k].n_mics, WellFormedPassed[k].rt60,
                    WellFormedPassed[k].sinr, WellFormedPassed[k].seed>>
        /\ pc = "plot" =>
              /\ ridx = Len(records) + 1
              /\ df.defined /\ df.rows = table
              /\ df.columns = columns /\ Len(df.columns) = 11

\* two directories with one well-formed record each, of different
\* algorithms and equal RT60, SINR and Mics, gave a frame of two rows
C7_Witness ==
    /\ pc = "plot" /\ Rebuilding
    /\ Len(dirs) = 2
    /\ Len(Directory[dirs[1]].data) = 1 /\ Len(Directory[dirs[1]].data[1]) = 1
    /\ Len(Directory[dirs[2]].data) = 1 /\ Len(Directory[dirs[2]].data[1]) = 1
    /\ Len(df.rows) = 2
    /\ df.rows[1][1] # df.rows[2][1]
    /\ SubSeq(df.rows[1], 3, 5) = SubSeq(df.rows[2], 3, 5)

\* x and y are the same float, or differ by less than 2^slack units in the
\* last place of a float of exponent scale
Near(x, y, scale, slack) ==
    \/ x = y
    \/ /\ x.k \in {"num", "zero"} /\ y.k \in {"num", "zero"}
       /\ LET d == fsub(x, y) IN d.k = "zero" \/ d.e + Precision <= scale + slack

\* the sampling rate of the last directory of the command line
LastFs == Directory[dirs[Len(dirs)]].parameters.fs

\* every record and every sampling rate of the inputs
InputRecords == {RecordList[h] : h \in 1..Len(RecordList)}
InputRates == {RateList[g] : g \in 1..Len(RateList)}

\* runtime / n_samples * fs, for every record and sampling rate of the inputs
RealTimeFactor ==
    [rec \in InputRecords, fs \in InputRates |->
        fmulInt(fdivInt(rec.runtime, rec.n_samples), fs)]

\* whether that factor is the runtime up to rounding
NearRuntime ==
    [rec \in InputRecords, fs \in InputRates |->
        Near(RealTimeFactor[rec, fs], rec.runtime, rec.runtime.e, 1)]

\* C6 (amended): after the scan the parameters are those of the last
\* directory, and every row has Runtime [s] = runtime / n_samples * fs with
\* that directory's fs, also the rows of records of earlier directories; for
\* a record whose n_samples equals that fs this is its runtime up to rounding
\* (less than two units in the last place), not always the same float.
C6_LastDirectoryRate ==
    /\ (pc # "start" /\ i > Len(dirs)) => parameters = Directory[dirs[Len(dirs)]].parameters
    /\ Rebuilding =>
          \A k \in 1..Len(table) :
              LET rec == WellFormedPassed[k]
              IN  /\ table[k][7] = RealTimeFactor[rec, LastFs]
                  /\ rec.n_samples = LastFs => NearRuntime[rec, LastFs]

\* C6 (as stated): the same, a record whose n_samples equals the fs of the
\* last directory having Runtime [s] equal to its runtime.
C6_RuntimeUnchanged ==
    /\ (pc # "start" /\ i > Len(dirs)) => parameters = Directory[dirs[Len(dirs)]].parameters
    /\ Rebuilding =>
          \A k \in 1..Len(table) :
              LET rec == WellFormedPassed[k]
              IN  /\ table[k][7] = RealTimeFactor[rec, LastFs]
                  /\ rec.n_samples = LastFs => table[k][7] = rec.runtime

\* two directories of different sampling rates were aggregated, and the
\* table holds a row of a record of the first directory, a row whose
\* Runtime [s] is the runtime, and a row whose Runtime [s] is only near it
C6_Witness ==
    /\ pc = "plot" /\ Rebuilding
    /\ Len(dirs) = 2
    /\ Directory[dirs[1]].parameters.fs # LastFs
    /\ \E j, k \in 1..Len(table) :
          /\ WellFormedPassed[j].n_samples = LastFs
          /\ table[j][7] = WellFormedPassed[j].runtime
          /\ WellFormedPassed[k].n_samples = LastFs
          /\ table[k][7] # WellFormedPassed[k].runtime

\* the largest exponent among the entries of two vectors
TopExponent(f, g) ==
    LET es == {f[j].e : j \in {h \in 1..Len(f) : f[h].k = "num"}}
              \cup {g[j].e : j \in {h \in 1..Len(g) : g[h].k = "num"}}
    IN  IF es = {} THEN 0 ELSE CHOOSE e \in es : \A d \in es : d <= e

\* mean(final) - mean(initial), each mean taken on its own
MeanDifference(seq) == fsub(np_mean(Last(seq)), np_mean(seq[1]))

\* mean of the elementwise differences final - initial
DifferenceMean(seq) ==
    LET f == Last(seq)
        g == seq[1]
        n == IF Len(f) > Len(g) THEN Len(f) ELSE Len(g)
        d == [j \in 1..n |-> fsub(IF Len(f) = 1 THEN f[1] ELSE f[j],
                                  IF Len(g) = 1 THEN g[1] ELSE g[j])]
    IN  np_mean(d)

\* both, and whether they are near each other, for every record of the inputs
\* whose improvement computation does not raise
Improvement ==
    [rec \in {x \in InputRecords : ~ImprovementRaises(x)} |->
        [sdr          |-> DifferenceMean(rec.sdr),
         sir          |-> DifferenceMean(rec.sir),
         sdr_of_means |-> MeanDifference(rec.sdr),
         sir_of_means |-> MeanDifference(rec.sir),
         near         |->
             /\ Near(DifferenceMean(rec.sdr), MeanDifference(rec.sdr),
                     TopExponent(Last(rec.sdr), rec.sdr[1]), 3)
             /\ Near(DifferenceMean(rec.sir), MeanDifference(rec.sir),
                     TopExponent(Last(rec.sir), rec.sir[1]), 3)]]

\* C8 (amended): for every record with well-formed sdr and sir of at least
\* two iterations, SDR Improvement [dB] is the mean of the elementwise
\* differences final - initial, which is mean(final) - mean(initial) up to
\* rounding (within a few units in the last place of the largest entry), not
\* always the same float; likewise SIR Improvement [dB].
C8_ImprovementIsMeanOfDifferences ==
    Rebuilding =>
        \A k \in 1..Len(table) :
            LET rec == WellFormedPassed[k]
            IN  (Len(rec.sdr) >= 2 /\ Len(rec.sir) >= 2) =>
                    /\ table[k][10] = Improvement[rec].sdr
                    /\ table[k][11] = Improvement[rec].sir
                    /\ Improvement[rec].near

\* C8 (as stated): for every such record SDR Improvement [dB] equals
\* mean(final SDR) - mean(initial SDR) and SIR Improvement [dB] equals
\* mean(final SIR) - mean(initial SIR).
C8_ImprovementIsDifferenceOfMeans ==
    Rebuilding =>
        \A k \in 1..Len(table) :
            LET rec == WellFormedPassed[k]
            IN  (Len(rec.sdr) >= 2 /\ Len(rec.sir) >= 2) =>
                    /\ table[k][10] = Improvement[rec].sdr_of_means
                    /\ table[k][11] = Improvement[rec].sir_of_means

\* the table holds a row whose SDR improvement is the difference of the
\* means, of a record of three iterations, and a row where it is not
C8_Witness ==
    /\ Rebuilding
    /\ \E j, k \in 1..Len(table) :
          /\ Len(WellFormedPassed[j].sdr) = 3
          /\ table[j][10] = Improvement[WellFormedPassed[j]].sdr_of_means
          /\ table[j][10].k = "num"
          /\ Len(WellFormedPassed[k].sdr) = 2
          /\ table[k][10] # Improvement[WellFormedPassed[k]].sdr_of_means

\* C9 (as stated): a run that gets past the directory scan recomputes the
\* table exactly when the flag is unset or the pickle file is absent; every
\* run that recomputes ends with the freshly aggregated table written to the
\* pickle file, and a run that loads the table never writes the pickle file.
C9_RebuildWritesArtifact ==
    /\ (pc = "scan" /\ i > Len(dirs)) =>
          (ENABLED ReadRecords <=> (~pickle_flag \/ ~pickle_file.exists))
    /\ (pc = "scan" /\ i > Len(dirs)) =>
          (ENABLED ReadPickle <=> ~(~pickle_flag \/ ~pickle_file.exists))
    /\ Loaded => (~Rebuilding /\ io.pickle_writes = 0)
    /\ (Rebuilding /\ pc \in {"plot", "figures", "done", "error"}) =>
          /\ io.pickle_writes = 1
          /\ pickle_file = to_pickle(DataFrame(table, columns))

\* ------------------------------------------------------------------------
\* Properties of proc_ratio
\* ------------------------------------------------------------------------

\* a median that exists and is finite
IsFinite(x) == x.k \in {"num", "zero"}

BothFinite == {c \in Coords : IsFinite(A[c]) /\ IsFinite(B[c])}

\* C3 (as stated): for every pair of median tables proc_ratio returns without
\* error; the result holds exactly one point (sources/mics, B/A) for each
\* coordinate where both medians exist and are finite and no other point, and
\* its first coordinates ascend.
C3_ProcRatioTotal ==
    rpc \in {"done", "error"} =>
        /\ ratio.raised = "none"
        /\ Len(ratio.value) = Cardinality(BothFinite)
        /\ \A c \in BothFinite :
              \E k \in 1..Len(ratio.value) :
                  ratio.value[k] = <<fdivInt(F(c[1]), c[2]), pd_div(B[c], A[c])>>
        /\ \A k \in 1..(Len(ratio.value) - 1) :
              ~flt(ratio.value[k + 1][1], ratio.value[k][1])

====
